---------------------------- MODULE Spec2Model ----------------------------
(***************************************************************************)
(* Zenith (Vulkan backend): device selection and initialisation, the       *)
(* presentable surface, the input descriptor and the command-buffer pool   *)
(* with its per-frame cycle, as state machines translated from the source. *)
(***************************************************************************)
EXTENDS Integers, Sequences, FiniteSets, TLC

VARIABLES
    \* Device (vulkan/device.cpp)
    adapters,        \* enumerated physical devices: sequence of scores given by picker.selector
    physicalDevice,  \* selected adapter (position in adapters), NullHandle when none
    queues,          \* std::vector<CoreQueue>
    extensions,      \* std::vector<const char*>: the device extensions required
    logicalDevice,   \* VkDevice, NullHandle when not created
    deviceCreateInfo, \* VkDeviceCreateInfo handed to vkCreateDevice
    initStatus,      \* "new", "ok", or the runtime_error thrown by init()
    \* Command pool and registry (vulkan/device.cpp)
    commandPool,     \* std::optional<VkCommandPool>: NullHandle when empty
    pools,           \* the native pools vkCreateCommandPool has created: handle i is pools[i]
    commandBuffers,  \* std::vector<std::shared_ptr<CommandBuffer>>
    lastCall,        \* the last API call made: [op, buf, native], buf = 0 when the call threw
    \* The frame loop of the example (main)
    pc,              \* position of main in its loop; "api" when the client is unconstrained
    held,            \* the buffer main holds in commandBuffer (position in the registry)
    frames,          \* frames main has presented
    \* Presentable (presentable.cpp)
    capabilities,    \* VkSurfaceCapabilitiesKHR: [minImageCount, maxImageCount]
    swapchain,       \* VkSwapchainKHR, NullHandle when none
    images,          \* std::vector<Image>: [image, view]
    imageCount,      \* createInfo.minImageCount, the number of images requested
    presStatus,      \* "new", "created", "failed", "destroyed"
    destroyLog,      \* the native destroy calls made so far, in order
    \* InputDescriptor (pipeline.cpp)
    items,           \* the fields added, in order: [location, size]
    binding,         \* VkVertexInputBindingDescription
    attributes,      \* VkVertexInputAttributeDescription per field
    inputStatus,     \* "open", "built", or the runtime_error thrown by addItem
    \* RenderPass (pipeline.cpp)
    attachments,     \* std::vector<RenderAttachment>
    subpass,         \* VkSubpassDescription handed to vkCreateRenderPass
    renderPass,      \* VkRenderPass, NullHandle when none
    passStatus,      \* "new", "created", or the runtime_error thrown by create
    passCalls,       \* the native calls RenderPass::create has made, in order
    \* Buffer (buffer.cpp)
    buffer,          \* VkBuffer, NullHandle when none
    memory,          \* VkDeviceMemory, NullHandle when none
    created,         \* native buffers created so far for this Buffer
    allocationSize,  \* bytes of the native allocation behind memory
    bufferStatus,    \* "new", "uploaded", or the runtime_error thrown by pushData
    bufferCalls,     \* the native calls of the most recent Buffer::pushData, in order
    \* Helper functions of Device, Presentable and Texture
    args,            \* the arguments of the helper call
    ret              \* what the call returned or threw; [status |-> "none"] before it

deviceVars == <<adapters, physicalDevice, queues, extensions, logicalDevice, deviceCreateInfo,
                initStatus>>
poolVars   == <<commandPool, pools, commandBuffers, lastCall>>
loopVars   == <<pc, held, frames>>
presVars   == <<capabilities, swapchain, images, imageCount, presStatus, destroyLog>>
inputVars  == <<items, binding, attributes, inputStatus>>
passVars   == <<attachments, subpass, renderPass, passStatus, passCalls>>
bufferVars == <<buffer, memory, created, allocationSize, bufferStatus, bufferCalls>>
callVars   == <<args, ret>>
vars       == <<deviceVars, poolVars, loopVars, presVars, inputVars, passVars, bufferVars,
                callVars>>

NullHandle == 0

-----------------------------------------------------------------------------
(* Bounds of the model *)

MaxBuffers == 2     \* command buffers allocated from the pool
MaxPipelines == 2   \* render pipelines a client requests buffers for
MaxSurfaces == 2    \* presentable surfaces a client requests buffers for
MaxFrames  == 8     \* frames the loop of main runs

-----------------------------------------------------------------------------
(***************************************************************************)
(* Command buffers.  A buffer holds what its constructor binds, inUse,     *)
(* imageIndex, and phase: the last lifecycle operation recorded on the     *)
(* native buffer.                                                          *)
(***************************************************************************)

Min(S) == CHOOSE x \in S : \A y \in S : x <= y

\* RenderPipeline as requestCommandBuffer reads it: its native pipeline and
\* the native render pass of its renderPass member
RenderPipelines == {[pipeline |-> i, renderPass |-> [renderPass |-> i]] : i \in 1..MaxPipelines}
Presentables == 1..MaxSurfaces

\* The pipeline and the presentable of main
MainPipeline == [pipeline |-> 1, renderPass |-> [renderPass |-> 1]]
MainPresentable == 1

\* CommandBuffer::CommandBuffer
CommandBuffer(pipeline, pool, commandBuffer, presentable) ==
    [commandPool |-> pool, commandBuffer |-> commandBuffer, inUse |-> TRUE,
     pipeline |-> pipeline.pipeline, renderPass |-> pipeline.renderPass.renderPass,
     presentable |-> presentable, phase |-> "Initial", imageIndex |-> 0]

\* The scan of requestCommandBuffer: the first registry entry with !inUse, 0 if none
FirstNotInUse(bufs) ==
    IF \E i \in 1..Len(bufs) : ~bufs[i].inUse
    THEN Min({i \in 1..Len(bufs) : ~bufs[i].inUse})
    ELSE 0

\* getQueueFromCapability: the queues with the capability, in the order of queues
RECURSIVE getQueueFromCapability(_, _)
getQueueFromCapability(qs, c) ==
    IF qs = <<>> THEN <<>>
    ELSE (IF c \in Head(qs).capabilities THEN <<Head(qs)>> ELSE <<>>)
         \o getQueueFromCapability(Tail(qs), c)

\* makeCommandPool on the family of the first present queue
makeCommandPool_PresentFamily(made, qs, poolOk) ==
    IF poolOk
    THEN Append(made,
                [queueFamilyIndex |-> Head(getQueueFromCapability(qs, "Present")).familyIndex,
                 flags |-> {"RESET_COMMAND_BUFFER_BIT"}])
    ELSE made

\* Device::makeCommandPool: the native pools after the call; the new pool
\* is the last one when vkCreateCommandPool succeeds, and the call throws
\* when it fails
makeCommandPool(made, qs, poolOk) ==
    IF poolOk
    THEN Append(made,
                [queueFamilyIndex |-> Head(getQueueFromCapability(qs, "Graphics")).familyIndex,
                 flags |-> {"RESET_COMMAND_BUFFER_BIT"}])
    ELSE made

requestCommandBuffer_AlwaysAllocate(pool, made, bufs, qs, pipeline, presentable, poolOk, allocOk) ==
    LET made1 == IF pool = NullHandle THEN makeCommandPool(made, qs, poolOk) ELSE made
        pool1 == IF pool = NullHandle /\ poolOk THEN Len(made1) ELSE pool
    IN
    IF pool1 = NullHandle
    THEN [pool |-> pool, pools |-> made, bufs |-> bufs, ret |-> 0]
    ELSE IF ~allocOk
    THEN [pool |-> pool1, pools |-> made1, bufs |-> bufs, ret |-> 0]
    ELSE [pool |-> pool1, pools |-> made1,
          bufs |-> Append(bufs, CommandBuffer(pipeline, pool1, Len(bufs) + 1, presentable)),
          ret |-> Len(bufs) + 1]

\* Device::requestCommandBuffer: ret is the buffer returned, 0 when it threw;
\* vkAllocateCommandBuffers hands out a native buffer not handed out before
requestCommandBuffer(pool, made, bufs, qs, pipeline, presentable, poolOk, allocOk) ==
    LET made1 == IF pool = NullHandle THEN makeCommandPool(made, qs, poolOk) ELSE made
        pool1 == IF pool = NullHandle /\ poolOk THEN Len(made1) ELSE pool
        free  == FirstNotInUse(bufs)
    IN
    IF pool1 = NullHandle
    THEN [pool |-> pool, pools |-> made, bufs |-> bufs, ret |-> 0]
    ELSE IF free # 0
    THEN [pool |-> pool1, pools |-> made1, bufs |-> bufs, ret |-> free]
    ELSE IF ~allocOk
    THEN [pool |-> pool1, pools |-> made1, bufs |-> bufs, ret |-> 0]
    ELSE [pool |-> pool1, pools |-> made1,
          bufs |-> Append(bufs, CommandBuffer(pipeline, pool1, Len(bufs) + 1, presentable)),
          ret |-> Len(bufs) + 1]

begin(buf) == [buf EXCEPT !.phase = "Begun"]

\* The member semaphore of registry entry b with the given name
Semaphore(b, name) == [owner |-> b, name |-> name]

NoNative == [call |-> "none"]

\* The vkAcquireNextImageKHR call of beginRendering
AcquireInfo(b, acquireOk, acquired) ==
    [call |-> "vkAcquireNextImageKHR",
     semaphore |-> Semaphore(b, "imageAvailableSemaphore"),
     imageIndexLocal |-> IF acquireOk THEN acquired ELSE 0]

\* beginRendering: imageIndexLocal starts at 0 and holds the acquired index
\* when the acquire succeeds; the result of the acquire is not looked at
beginRendering(buf, acquireOk, acquired) ==
    [buf EXCEPT !.phase = "Rendering", !.imageIndex = IF acquireOk THEN acquired ELSE 0]

draw(buf) == buf

endRendering(buf) == [buf EXCEPT !.phase = "RenderEnded"]

end_KeepInUse(buf) == [buf EXCEPT !.phase = "Ended"]

end(buf) == [buf EXCEPT !.phase = "Ended", !.inUse = FALSE]

submit(buf) == [buf EXCEPT !.phase = "Submitted"]

HasCapability(qs, c) == \E i \in 1..Len(qs) : c \in qs[i].capabilities

\* getGraphicsQueue / getPresentQueue: the first queue with the capability, 0 when it throws
getQueue(qs, c) ==
    IF HasCapability(qs, c)
    THEN Min({i \in 1..Len(qs) : c \in qs[i].capabilities})
    ELSE 0

\* VkSubmitInfo with the wait and signal semaphores exchanged
SubmitInfo_Exchanged(b, qs) ==
    [call |-> "vkQueueSubmit", commandBuffer |-> b,
     waitSemaphore |-> Semaphore(b, "renderFinishedSemaphore"),
     waitDstStageMask |-> "ALL_COMMANDS_BIT",
     signalSemaphore |-> Semaphore(b, "imageAvailableSemaphore"),
     queue |-> qs[getQueue(qs, "Graphics")].queue]

\* The VkSubmitInfo and queue that submit hands to vkQueueSubmit (whose
\* result submit does not look at)
SubmitInfo(b, qs) ==
    [call |-> "vkQueueSubmit", commandBuffer |-> b,
     waitSemaphore |-> Semaphore(b, "imageAvailableSemaphore"),
     waitDstStageMask |-> "ALL_COMMANDS_BIT",
     signalSemaphore |-> Semaphore(b, "renderFinishedSemaphore"),
     queue |-> qs[getQueue(qs, "Graphics")].queue]

present(buf) == [buf EXCEPT !.phase = "Presented"]

\* VkPresentInfoKHR that always names image 0
PresentInfo_FirstImage(b, buf, qs) ==
    [call |-> "vkQueuePresentKHR",
     waitSemaphore |-> Semaphore(b, "renderFinishedSemaphore"),
     imageIndex |-> 0,
     queue |-> qs[getQueue(qs, "Present")].queue]

\* The VkPresentInfoKHR and queue that present hands to vkQueuePresentKHR
\* (whose result present does not look at)
PresentInfo(b, buf, qs) ==
    [call |-> "vkQueuePresentKHR",
     waitSemaphore |-> Semaphore(b, "renderFinishedSemaphore"),
     imageIndex |-> buf.imageIndex,
     queue |-> qs[getQueue(qs, "Present")].queue]

\* One call of a CommandBuffer method on registry entry b
Call(op, b, new, native) ==
    /\ commandBuffers' = [commandBuffers EXCEPT ![b] = new]
    /\ lastCall' = [op |-> op, buf |-> b, native |-> native]
    /\ UNCHANGED <<commandPool, pools>>

DoRequest(pipeline, presentable, poolOk, allocOk) ==
    LET r == requestCommandBuffer(commandPool, pools, commandBuffers, queues,
                                  pipeline, presentable, poolOk, allocOk) IN
    /\ Len(r.bufs) <= MaxBuffers
    /\ commandPool' = r.pool
    /\ pools' = r.pools
    /\ commandBuffers' = r.bufs
    /\ lastCall' = [op |-> "request", buf |-> r.ret, native |-> NoNative]

DoBegin(b)          == Call("begin", b, begin(commandBuffers[b]), NoNative)
DoBeginRendering(b) == \E acquireOk \in BOOLEAN, acquired \in 0..(Len(images) - 1) :
                          Call("beginRendering", b,
                               beginRendering(commandBuffers[b], acquireOk, acquired),
                               AcquireInfo(b, acquireOk, acquired))
DoDraw(b)           == Call("draw", b, draw(commandBuffers[b]), NoNative)
DoEndRendering(b)   == Call("endRendering", b, endRendering(commandBuffers[b]), NoNative)
DoEnd(b)            == Call("end", b, end(commandBuffers[b]), NoNative)
DoSubmit(b)         == Call("submit", b, submit(commandBuffers[b]), SubmitInfo(b, queues))
DoPresent(b)        == Call("present", b, present(commandBuffers[b]),
                            PresentInfo(b, commandBuffers[b], queues))

InitPool ==
    /\ commandPool = NullHandle
    /\ pools = <<>>
    /\ commandBuffers = <<>>
    /\ lastCall = [op |-> "none", buf |-> 0, native |-> NoNative]


-----------------------------------------------------------------------------
(***************************************************************************)
(* A client that calls the public API in any order, on any buffer it was   *)
(* handed (the methods of CommandBuffer check no state), with the pipeline *)
(* and the presentable of main.                                            *)
(***************************************************************************)

PoolOnly == UNCHANGED <<deviceVars, loopVars, presVars, inputVars, passVars, bufferVars, callVars>>

ApiRequest == /\ pc = "api"
              /\ \E poolOk, allocOk \in BOOLEAN :
                    DoRequest(MainPipeline, MainPresentable, poolOk, allocOk)
              /\ PoolOnly

ApiBegin == /\ pc = "api"
            /\ \E b \in 1..Len(commandBuffers) : DoBegin(b)
            /\ PoolOnly

ApiBeginRendering == /\ pc = "api"
                     /\ \E b \in 1..Len(commandBuffers) : DoBeginRendering(b)
                     /\ PoolOnly

ApiDraw == /\ pc = "api"
           /\ \E b \in 1..Len(commandBuffers) : DoDraw(b)
           /\ PoolOnly

ApiEndRendering == /\ pc = "api"
                   /\ \E b \in 1..Len(commandBuffers) : DoEndRendering(b)
                   /\ PoolOnly

ApiEnd == /\ pc = "api"
          /\ \E b \in 1..Len(commandBuffers) : DoEnd(b)
          /\ PoolOnly

ApiSubmit == /\ pc = "api"
             /\ \E b \in 1..Len(commandBuffers) : DoSubmit(b)
             /\ PoolOnly

ApiPresent == /\ pc = "api"
              /\ \E b \in 1..Len(commandBuffers) : DoPresent(b)
              /\ PoolOnly

-----------------------------------------------------------------------------
(***************************************************************************)
(* The frame loop of main: request, begin, beginRendering, bind and draw,  *)
(* endRendering, end, submit, present, until the window closes.            *)
(***************************************************************************)

LoopStep(at, next) == /\ pc = at
                      /\ pc' = next
                      /\ UNCHANGED <<held, frames>>

LoopRequest ==
    /\ pc = "request"
    /\ frames < MaxFrames
    /\ \E poolOk, allocOk \in BOOLEAN :
          DoRequest(MainPipeline, MainPresentable, poolOk, allocOk)
    /\ held' = lastCall'.buf
    /\ pc' = IF lastCall'.buf = 0 THEN "aborted" ELSE "begin"
    /\ UNCHANGED frames
    /\ UNCHANGED <<deviceVars, presVars, inputVars, passVars, bufferVars, callVars>>

LoopBegin == /\ LoopStep("begin", "beginRendering")
             /\ DoBegin(held)
             /\ UNCHANGED <<deviceVars, presVars, inputVars, passVars, bufferVars, callVars>>

LoopBeginRendering == /\ LoopStep("beginRendering", "draw")
                      /\ DoBeginRendering(held)
                      /\ UNCHANGED <<deviceVars, presVars, inputVars, passVars, bufferVars, callVars>>

LoopDraw == /\ LoopStep("draw", "endRendering")
            /\ DoDraw(held)
            /\ UNCHANGED <<deviceVars, presVars, inputVars, passVars, bufferVars, callVars>>

LoopEndRendering == /\ LoopStep("endRendering", "end")
                    /\ DoEndRendering(held)
                    /\ UNCHANGED <<deviceVars, presVars, inputVars, passVars, bufferVars, callVars>>

LoopEnd == /\ LoopStep("end", "submit")
           /\ DoEnd(held)
           /\ UNCHANGED <<deviceVars, presVars, inputVars, passVars, bufferVars, callVars>>

LoopSubmit == /\ LoopStep("submit", "present")
              /\ DoSubmit(held)
              /\ UNCHANGED <<deviceVars, presVars, inputVars, passVars, bufferVars, callVars>>

LoopPresent == /\ pc = "present"
               /\ pc' = "request"
               /\ frames' = frames + 1
               /\ UNCHANGED held
               /\ DoPresent(held)
               /\ UNCHANGED <<deviceVars, presVars, inputVars, passVars, bufferVars, callVars>>

\* window.shouldClose() turned true
LoopClose == /\ LoopStep("request", "done")
             /\ UNCHANGED <<deviceVars, poolVars, presVars, inputVars, passVars, bufferVars, callVars>>

-----------------------------------------------------------------------------
(***************************************************************************)
(* Device::init: adapter selection, queue family resolution, logical       *)
(* device creation.  The scores are what picker.selector returns for each  *)
(* enumerated adapter, in enumeration order.                               *)
(***************************************************************************)

MaxAdapters == 2     \* adapters vkEnumeratePhysicalDevices reports
MaxScore    == 2     \* largest score of the scoring function
MaxFamilies == 2     \* queue families of an adapter

Scores == (0 - 1)..MaxScore

\* The capability sets a queue family may be reported with
FamilyKinds == { {}, {"Transfer"}, {"Compute", "Transfer"}, {"Present"},
                 {"Graphics"}, {"Graphics", "Present"},
                 {"Graphics", "Compute", "Transfer"},
                 {"Graphics", "Compute", "Transfer", "Present"} }

SeqsUpTo(S, n) == UNION {[1..k -> S] : k \in 0..n}

\* std::optional<std::pair<VkPhysicalDevice, float>> bestDevice = std::nullopt
NoDevice == [has |-> FALSE, dev |-> NullHandle, score |-> 0]

Better_OrEqual(best, score) == ~best.has \/ score >= best.score

\* if (!bestDevice || score > bestDevice->second)
Better(best, score) == ~best.has \/ score > best.score

RECURSIVE PickLoop(_, _, _)
PickLoop(scores, i, best) ==
    IF i > Len(scores) THEN best
    ELSE PickLoop(scores, i + 1,
                  IF Better(best, scores[i])
                  THEN [has |-> TRUE, dev |-> i, score |-> scores[i]]
                  ELSE best)

\* The loop of findQueueFamilies: one CoreQueue per family, handle not yet set
FamilyQueues(families) ==
    [i \in 1..Len(families) |->
        [queue |-> NullHandle, familyIndex |-> i - 1, capabilities |-> families[i]]]

FamilyError_NoPresentCheck(qs) ==
    IF Len(qs) = 0 THEN "No suitable queue families found for the physical device"
    ELSE IF ~HasCapability(qs, "Graphics") THEN "No graphics queue found for the physical device"
    ELSE "none"

\* The three throws that end findQueueFamilies
FamilyError(qs) ==
    IF Len(qs) = 0 THEN "No suitable queue families found for the physical device"
    ELSE IF ~HasCapability(qs, "Graphics") THEN "No graphics queue found for the physical device"
    ELSE IF ~HasCapability(qs, "Present") THEN "No present queue found for the physical device"
    ELSE "none"

\* uniqueQueueFamilies built from the families with graphics only
UniqueQueueFamilies_GraphicsOnly(qs) ==
    { qs[i].familyIndex : i \in { j \in 1..Len(qs) : "Graphics" \in qs[j].capabilities } }

\* uniqueQueueFamilies of initializeLogicalDevice: the family indices of the
\* queue records that carry one of the four capabilities
UniqueQueueFamilies(qs) ==
    { qs[i].familyIndex :
        i \in { j \in 1..Len(qs) :
                  qs[j].capabilities \cap {"Graphics", "Compute", "Transfer", "Present"} # {} } }

\* Iteration over a std::set<uint32_t>: ascending
RECURSIVE Ascending(_)
Ascending(S) == IF S = {} THEN <<>> ELSE <<Min(S)>> \o Ascending(S \ {Min(S)})

NoCreateInfo == [queueCreateInfos |-> <<>>, samplerAnisotropy |-> FALSE]

\* VkDeviceCreateInfo: one VkDeviceQueueCreateInfo per unique family, and the features
DeviceCreateInfo(qs) ==
    LET fams == Ascending(UniqueQueueFamilies(qs)) IN
    [queueCreateInfos |-> [i \in 1..Len(fams) |->
                              [queueFamilyIndex |-> fams[i], queueCount |-> 1]],
     samplerAnisotropy |-> TRUE]

\* vkGetDeviceQueue(logicalDevice, family, 0): the queue of a family the
\* device was created with; a family that was not requested has no queue
GetDeviceQueue(info, family) ==
    IF \E i \in 1..Len(info.queueCreateInfos) :
          info.queueCreateInfos[i].queueFamilyIndex = family
    THEN family + 1
    ELSE NullHandle

\* The last loop of initializeLogicalDevice: vkGetDeviceQueue for each family with capabilities
WithQueueHandles(qs) ==
    [i \in 1..Len(qs) |->
        IF qs[i].capabilities = {} THEN qs[i]
        ELSE [qs[i] EXCEPT !.queue = GetDeviceQueue(DeviceCreateInfo(qs), qs[i].familyIndex)]]

\* Device::init on the enumerated scores, the families of the selected adapter and
\* the result of vkCreateDevice
init(scores, families, createOk) ==
    LET best == PickLoop(scores, 1, NoDevice)
        qs   == FamilyQueues(families)
    IN
    IF Len(scores) = 0
    THEN [physicalDevice |-> NullHandle, queues |-> <<>>, logicalDevice |-> NullHandle,
          deviceCreateInfo |-> NoCreateInfo,
          status |-> "No Vulkan-compatible devices found"]
    ELSE IF ~best.has
    THEN [physicalDevice |-> NullHandle, queues |-> <<>>, logicalDevice |-> NullHandle,
          deviceCreateInfo |-> NoCreateInfo,
          status |-> "No suitable Vulkan device found"]
    ELSE IF FamilyError(qs) # "none"
    THEN [physicalDevice |-> best.dev, queues |-> qs, logicalDevice |-> NullHandle,
          deviceCreateInfo |-> NoCreateInfo,
          status |-> FamilyError(qs)]
    ELSE IF ~createOk
    THEN [physicalDevice |-> best.dev, queues |-> qs, logicalDevice |-> NullHandle,
          deviceCreateInfo |-> DeviceCreateInfo(qs),
          status |-> "Failed to create logical device"]
    ELSE [physicalDevice |-> best.dev, queues |-> WithQueueHandles(qs), logicalDevice |-> 1,
          deviceCreateInfo |-> DeviceCreateInfo(qs),
          status |-> "ok"]

DeviceInit ==
    /\ initStatus = "new"
    /\ \E families \in SeqsUpTo(FamilyKinds, MaxFamilies), createOk \in BOOLEAN :
          LET r == init(adapters, families, createOk) IN
          /\ physicalDevice' = r.physicalDevice
          /\ queues' = r.queues
          /\ logicalDevice' = r.logicalDevice
          /\ deviceCreateInfo' = r.deviceCreateInfo
          /\ initStatus' = r.status
    /\ UNCHANGED <<adapters, extensions, poolVars, loopVars, presVars, inputVars, passVars,
                   bufferVars, callVars>>

\* The member initialiser of Device::extensions
DefaultExtensions == <<"VK_KHR_swapchain">>

InitDeviceNew ==
    /\ adapters \in SeqsUpTo(Scores, MaxAdapters)
    /\ physicalDevice = NullHandle
    /\ queues = <<>>
    /\ extensions = DefaultExtensions
    /\ logicalDevice = NullHandle
    /\ deviceCreateInfo = NoCreateInfo
    /\ initStatus = "new"

\* A Device that init() has brought up on one adapter whose family 0 does
\* graphics, compute and transfer and whose family 1 presents
InitDeviceReady ==
    /\ adapters = <<1>>
    /\ physicalDevice = 1
    /\ queues = <<[queue |-> 1, familyIndex |-> 0,
                   capabilities |-> {"Graphics", "Compute", "Transfer"}],
                  [queue |-> 2, familyIndex |-> 1, capabilities |-> {"Present"}]>>
    /\ extensions = DefaultExtensions
    /\ logicalDevice = 1
    /\ deviceCreateInfo = DeviceCreateInfo(queues)
    /\ initStatus = "ok"

-----------------------------------------------------------------------------
(***************************************************************************)
(* Presentable: swapchain creation and teardown.  uint32_t is modelled     *)
(* with UIntMax standing for UINT32_MAX.                                   *)
(***************************************************************************)

UIntMax     == 5     \* the largest uint32_t of the model
DriverExtra == 1     \* images a driver may create beyond the requested count

UInt == 0..UIntMax

Max(a, b) == IF a >= b THEN a ELSE b

ImageCount_NoClamp(minImageCount, maxImageCount) == (minImageCount + 1) % (UIntMax + 1)

\* uint32_t imageCount = capabilities.minImageCount + 1, clamped to maxImageCount
ImageCount(minImageCount, maxImageCount) ==
    LET n == (minImageCount + 1) % (UIntMax + 1) IN
    IF maxImageCount > 0 /\ n > maxImageCount THEN maxImageCount ELSE n

\* The counts vkGetSwapchainImagesKHR may report for a swapchain created with
\* minImageCount = requested: at least the requested count, at most the surface's maximum
DriverCounts(requested, maxImageCount) ==
    IF maxImageCount > 0
    THEN requested..Max(requested, maxImageCount)
    ELSE requested..(requested + DriverExtra)

\* The loop that creates one view per swapchain image; it throws at image failAt
ImageViews(count, failAt) ==
    [i \in 1..(IF failAt = 0 THEN count ELSE failAt - 1) |-> [image |-> i, view |-> i]]

\* Presentable::create
create(caps, swapOk, count, failAt) ==
    LET n == ImageCount(caps.minImageCount, caps.maxImageCount) IN
    IF ~swapOk
    THEN [imageCount |-> n, swapchain |-> NullHandle, images |-> <<>>, status |-> "failed"]
    ELSE [imageCount |-> n, swapchain |-> 1, images |-> ImageViews(count, failAt),
          status |-> IF failAt = 0 THEN "created" ELSE "failed"]

RECURSIVE DestroyImages(_, _)
DestroyImages(imgs, i) ==
    IF i > Len(imgs) THEN <<>>
    ELSE (IF imgs[i].view # NullHandle THEN <<[kind |-> "view", handle |-> imgs[i].view]>> ELSE <<>>)
         \o (IF imgs[i].image # NullHandle THEN <<[kind |-> "image", handle |-> imgs[i].image]>> ELSE <<>>)
         \o DestroyImages(imgs, i + 1)

\* Presentable::~Presentable: the native destroy calls it makes, in order
Destructor(sc, imgs) ==
    (IF sc # NullHandle THEN <<[kind |-> "swapchain", handle |-> sc]>> ELSE <<>>)
    \o DestroyImages(imgs, 1)

PresentableCreate ==
    /\ presStatus = "new"
    /\ \E swapOk \in BOOLEAN :
       \E count \in DriverCounts(ImageCount(capabilities.minImageCount,
                                            capabilities.maxImageCount),
                                 capabilities.maxImageCount) :
       \E failAt \in 0..count :
          LET r == create(capabilities, swapOk, count, failAt) IN
          /\ imageCount' = r.imageCount
          /\ swapchain' = r.swapchain
          /\ images' = r.images
          /\ presStatus' = r.status
    /\ UNCHANGED <<capabilities, destroyLog, deviceVars, poolVars, loopVars, inputVars, passVars, bufferVars, callVars>>

\* The destructor runs on a constructed Presentable (a constructor that throws
\* leaves no object to destroy)
PresentableDestroy ==
    /\ presStatus = "created"
    /\ destroyLog' = destroyLog \o Destructor(swapchain, images)
    /\ presStatus' = "destroyed"
    /\ UNCHANGED <<capabilities, swapchain, images, imageCount,
                   deviceVars, poolVars, loopVars, inputVars, passVars, bufferVars, callVars>>

InitPresentable ==
    /\ capabilities \in [minImageCount : UInt, maxImageCount : UInt]
    /\ swapchain = NullHandle
    /\ images = <<>>
    /\ imageCount = 0
    /\ presStatus = "new"
    /\ destroyLog = <<>>

\* No Presentable yet
InitPresentableNone ==
    /\ capabilities = [minImageCount |-> 1, maxImageCount |-> 0]
    /\ swapchain = NullHandle
    /\ images = <<>>
    /\ imageCount = 0
    /\ presStatus = "new"
    /\ destroyLog = <<>>

\* A Presentable that create() has built with two swapchain images
InitPresentableReady ==
    /\ capabilities = [minImageCount |-> 1, maxImageCount |-> 0]
    /\ swapchain = 1
    /\ images = ImageViews(ImageCount(1, 0), 0)
    /\ imageCount = ImageCount(1, 0)
    /\ presStatus = "created"
    /\ destroyLog = <<>>

-----------------------------------------------------------------------------
(***************************************************************************)
(* InputDescriptor: addItem and buildInputLayout.                          *)
(***************************************************************************)

N == 3     \* capacity of InputDescriptor<N>

\* InputDescriptorItem<T>: the format tag and sizeof(T)
ItemTypes == { [format |-> "Float",   size |-> 4],
               [format |-> "Vector2", size |-> 8],
               [format |-> "Vector3", size |-> 12],
               [format |-> "Vector4", size |-> 16] }

RECURSIVE SumSizes(_, _)
SumSizes(its, n) == IF n = 0 THEN 0 ELSE SumSizes(its, n - 1) + its[n].size

\* attributes[i].offset = i * item->getSize(), i counted from 0
AttributeOffset(its, i) == (i - 1) * its[i].size

\* InputDescriptor::buildInputLayout
buildInputLayout(its) ==
    [binding |-> [binding |-> 0, stride |-> SumSizes(its, Len(its)), inputRate |-> "VERTEX"],
     attributes |-> [i \in 1..Len(its) |->
                        [location |-> its[i].location, binding |-> 0,
                         format |-> its[i].format, offset |-> AttributeOffset(its, i)]]]

\* addItem without the capacity test
addItem_Unchecked(its, t) ==
    [items |-> Append(its, [location |-> Len(its), format |-> t.format, size |-> t.size]),
     status |-> "open"]

\* InputDescriptor<N>::addItem: push_back while items.size() < N, else throw
addItem(its, t) ==
    IF Len(its) < N
    THEN [items |-> Append(its, [location |-> Len(its), format |-> t.format,
                                 size |-> t.size]),
          status |-> "open"]
    ELSE [items |-> its, status |-> "InputDescriptor: Too many items added"]

\* A call of addItem by the client
AddItem ==
    /\ inputStatus # "built"
    /\ \E t \in ItemTypes :
          /\ items' = addItem(items, t).items
          /\ inputStatus' = addItem(items, t).status
    /\ UNCHANGED <<binding, attributes, deviceVars, poolVars, loopVars, presVars, passVars, bufferVars, callVars>>

\* Device::useInputDescriptor
BuildInputLayout ==
    /\ inputStatus # "built"
    /\ binding' = buildInputLayout(items).binding
    /\ attributes' = buildInputLayout(items).attributes
    /\ inputStatus' = "built"
    /\ UNCHANGED <<items, deviceVars, poolVars, loopVars, presVars, passVars, bufferVars, callVars>>

InitInput ==
    /\ items = <<>>
    /\ binding = [binding |-> 0, stride |-> 0, inputRate |-> "VERTEX"]
    /\ attributes = <<>>
    /\ inputStatus = "open"

-----------------------------------------------------------------------------
(***************************************************************************)
(* RenderAttachment and RenderPass.  A pointer to attachments[i].reference *)
(* is the position i, counted from 0 as in the code; NullPointer is        *)
(* nullptr.                                                                *)
(***************************************************************************)

MaxAttachments == 2     \* attachments a client adds to one render pass

NullPointer == 0 - 1

Operations == {"Store", "Clear", "DontCare"}
AttachmentLayouts == {"ColorAttachment", "DepthAttachment"}
AttachmentIndices == {0 - 1, 0, 1}

\* A value-initialised VkAttachmentDescription and VkAttachmentReference
NoDescription == [loadOp |-> "LOAD_OP_LOAD", storeOp |-> "STORE_OP_STORE",
                  initialLayout |-> "UNDEFINED", finalLayout |-> "UNDEFINED"]
NoReference == [attachment |-> 0, layout |-> "UNDEFINED"]

\* The RenderAttachment objects a client can configure
RenderAttachments ==
    { [loadOperation |-> l, storeOperation |-> st, layout |-> la, attachmentIndex |-> ix,
       description |-> NoDescription, reference |-> NoReference] :
        l \in Operations, st \in Operations, la \in AttachmentLayouts,
        ix \in AttachmentIndices }

\* toVulkanStoreOp
toVulkanStoreOp(operation) ==
    CASE operation = "Store"    -> [value |-> "STORE_OP_STORE", error |-> ""]
      [] operation = "Clear"    ->
            [value |-> "", error |-> "Clear operation is not supported for Vulkan store op"]
      [] operation = "DontCare" -> [value |-> "STORE_OP_DONT_CARE", error |-> ""]
      [] OTHER -> [value |-> "", error |-> "Unknown operation for Vulkan store op"]

\* toVulkanLoadOp that lets Store through
toVulkanLoadOp_AcceptStore(operation) ==
    CASE operation = "Store"    -> [value |-> "LOAD_OP_LOAD", error |-> ""]
      [] operation = "Clear"    -> [value |-> "LOAD_OP_CLEAR", error |-> ""]
      [] operation = "DontCare" -> [value |-> "LOAD_OP_DONT_CARE", error |-> ""]
      [] OTHER -> [value |-> "", error |-> "Unknown operation for Vulkan load op"]

\* toVulkanLoadOp
toVulkanLoadOp(operation) ==
    CASE operation = "Store"    ->
            [value |-> "", error |-> "Store operation is not supported for Vulkan load op"]
      [] operation = "Clear"    -> [value |-> "LOAD_OP_CLEAR", error |-> ""]
      [] operation = "DontCare" -> [value |-> "LOAD_OP_DONT_CARE", error |-> ""]
      [] OTHER -> [value |-> "", error |-> "Unknown operation for Vulkan load op"]

\* RenderAttachment::makeRenderAttachment: the attachment as the call leaves
\* it and the runtime_error it throws ("" when it returns)
makeRenderAttachment(a) ==
    LET load  == toVulkanLoadOp(a.loadOperation)
        store == toVulkanStoreOp(a.storeOperation)
        final == IF a.layout = "ColorAttachment" THEN "PRESENT_SRC_KHR"
                 ELSE "DEPTH_STENCIL_ATTACHMENT_OPTIMAL"
        ref   == IF a.layout = "ColorAttachment" THEN "COLOR_ATTACHMENT_OPTIMAL"
                 ELSE "DEPTH_STENCIL_ATTACHMENT_OPTIMAL"
    IN  IF a.attachmentIndex < 0
        THEN [attachment |-> a,
              error |-> "Attachment index must be set before making a render attachment"]
        ELSE IF load.error # ""
        THEN [attachment |-> a, error |-> load.error]
        ELSE IF store.error # ""
        THEN [attachment |-> [a EXCEPT !.description.loadOp = load.value],
              error |-> store.error]
        ELSE [attachment |->
                 [a EXCEPT !.description = [loadOp |-> load.value, storeOp |-> store.value,
                                            initialLayout |-> "UNDEFINED",
                                            finalLayout |-> final],
                           !.reference = [attachment |-> a.attachmentIndex, layout |-> ref]],
              error |-> ""]

\* The loop of RenderPass::create over the attachments from position i on;
\* it stops at the first makeRenderAttachment that throws
RECURSIVE MakeAttachments(_, _)
MakeAttachments(atts, i) ==
    IF i > Len(atts) THEN [attachments |-> atts, error |-> ""]
    ELSE LET m == makeRenderAttachment(atts[i])
             made == [atts EXCEPT ![i] = m.attachment]
         IN  IF m.error # "" THEN [attachments |-> made, error |-> m.error]
             ELSE MakeAttachments(made, i + 1)

\* subpass.pDepthStencilAttachment taken from attachment 1 whatever its layout
DepthStencilAttachment_AnySecond(atts) ==
    IF Len(atts) > 1 THEN 1 ELSE NullPointer

\* subpass.pDepthStencilAttachment
DepthStencilAttachment(atts) ==
    IF Len(atts) > 1 /\ atts[2].layout = "DepthAttachment" THEN 1 ELSE NullPointer

NoSubpass == [colorAttachmentCount |-> 0, pColorAttachments |-> NullPointer,
              pDepthStencilAttachment |-> NullPointer]

\* RenderPass::create; createOk is whether vkCreateRenderPass succeeds
RenderPass_create(atts, createOk) ==
    IF atts = <<>>
    THEN [attachments |-> atts, subpass |-> NoSubpass, renderPass |-> NullHandle,
          status |-> "No attachments specified to create the Render Pass",
          calls |-> <<>>]
    ELSE LET sp == [colorAttachmentCount |-> 1, pColorAttachments |-> 0,
                    pDepthStencilAttachment |-> DepthStencilAttachment(atts)]
             made == MakeAttachments(atts, 1)
             info == [call |-> "vkCreateRenderPass",
                      attachmentCount |-> Len(made.attachments),
                      subpassCount |-> 1, dependencyCount |-> 1]
         IN  IF made.error # ""
             THEN [attachments |-> made.attachments, subpass |-> NoSubpass,
                   renderPass |-> NullHandle, status |-> made.error, calls |-> <<>>]
             ELSE IF ~createOk
             THEN [attachments |-> made.attachments, subpass |-> sp,
                   renderPass |-> NullHandle, status |-> "Failed to create render pass",
                   calls |-> <<info>>]
             ELSE [attachments |-> made.attachments, subpass |-> sp,
                   renderPass |-> 1, status |-> "created", calls |-> <<info>>]

PassOnly == UNCHANGED <<deviceVars, poolVars, loopVars, presVars, inputVars, bufferVars,
                         callVars>>

\* RenderPass::addAttachment of a configured attachment
AddAttachment ==
    /\ passStatus = "new"
    /\ Len(attachments) < MaxAttachments
    /\ \E a \in RenderAttachments : attachments' = Append(attachments, a)
    /\ UNCHANGED <<subpass, renderPass, passStatus, passCalls>>
    /\ PassOnly

\* A call of RenderPass::create
PassCreate ==
    /\ passStatus = "new"
    /\ \E createOk \in BOOLEAN :
          LET r == RenderPass_create(attachments, createOk)
          IN  /\ attachments' = r.attachments
              /\ subpass' = r.subpass
              /\ renderPass' = r.renderPass
              /\ passStatus' = r.status
              /\ passCalls' = passCalls \o r.calls
    /\ PassOnly

InitPass ==
    /\ attachments = <<>>
    /\ subpass = NoSubpass
    /\ renderPass = NullHandle
    /\ passStatus = "new"
    /\ passCalls = <<>>

-----------------------------------------------------------------------------
(***************************************************************************)
(* Buffer::pushData.  A native handle is the number of the creation call   *)
(* that returned it.  bufferCalls holds the native calls of the most       *)
(* recent pushData as [call, handle, size, result].                        *)
(***************************************************************************)

MaxPayload       == 3     \* payload sizes are 12, 24, ... 12 * MaxPayload bytes
MaxNativeBuffers == 2     \* native buffers one Buffer object creates

PayloadSizes == { 12 * k : k \in 1..MaxPayload }

\* memRequirements.size for a buffer of the given size: the driver reports
\* the size itself or the size rounded up
MemoryRequirements(size) == {size, size + 12}

NativeCall(call, handle, size, ok) ==
    [call |-> call, handle |-> handle, size |-> size,
     result |-> IF ok THEN "VK_SUCCESS" ELSE "VK_ERROR"]

\* The creating branch of pushData: [buffer, memory, allocationSize, status, calls]
CreateBranch(b, size, required, createOk, allocOk) ==
    IF b.buffer = NullHandle \/ b.memory = NullHandle
    THEN IF ~createOk
         THEN [b EXCEPT !.status = "Failed to create buffer",
                        !.calls = <<NativeCall("vkCreateBuffer", NullHandle, size, FALSE)>>]
         ELSE LET newBuffer == b.created + 1
                  newMemory == IF allocOk THEN newBuffer ELSE b.memory
              IN  [b EXCEPT !.buffer = newBuffer,
                            !.created = newBuffer,
                            !.memory = newMemory,
                            !.allocationSize = IF allocOk THEN required ELSE @,
                            !.status = "bound",
                            !.calls = << NativeCall("vkCreateBuffer", newBuffer, size, TRUE),
                                         NativeCall("vkAllocateMemory", newMemory, required,
                                                    allocOk),
                                         NativeCall("vkBindBufferMemory", newMemory, 0,
                                                    newMemory # NullHandle) >>]
    ELSE [b EXCEPT !.status = "bound", !.calls = <<>>]

\* Buffer::pushData.  createOk, allocOk, mapOk are the results of the native
\* calls; survives is whether the process lives through a memcpy to a
\* pointer no successful vkMapMemory has written.
pushData(b, size, required, createOk, allocOk, mapOk, survives) ==
    LET c == CreateBranch(b, size, required, createOk, allocOk)
        mapped == mapOk /\ c.memory # NullHandle
    IN  IF c.status # "bound" THEN c
        ELSE [c EXCEPT !.status = IF mapped \/ survives THEN "uploaded" ELSE "crashed",
                       !.calls = @ \o << NativeCall("vkMapMemory", c.memory, size, mapped),
                                         NativeCall("memcpy", c.memory, size, mapped) >>]

BufferOnly == UNCHANGED <<deviceVars, poolVars, loopVars, presVars, inputVars, passVars,
                           callVars>>

\* A call of Buffer::pushData with a payload of any size
PushData ==
    /\ bufferStatus \in {"new", "uploaded"}
    /\ (buffer = NullHandle \/ memory = NullHandle) => created < MaxNativeBuffers
    /\ \E size \in PayloadSizes, createOk, allocOk, mapOk, survives \in BOOLEAN :
       \E required \in MemoryRequirements(size) :
          LET r == pushData([buffer |-> buffer, memory |-> memory, created |-> created,
                             allocationSize |-> allocationSize, status |-> bufferStatus,
                             calls |-> bufferCalls],
                            size, required, createOk, allocOk, mapOk, survives)
          IN  /\ buffer' = r.buffer
              /\ memory' = r.memory
              /\ created' = r.created
              /\ allocationSize' = r.allocationSize
              /\ bufferStatus' = r.status
              /\ bufferCalls' = r.calls
    /\ BufferOnly

InitBuffer ==
    /\ buffer = NullHandle
    /\ memory = NullHandle
    /\ created = 0
    /\ allocationSize = 0
    /\ bufferStatus = "new"
    /\ bufferCalls = <<>>

-----------------------------------------------------------------------------
(***************************************************************************)
(* Helper functions.  Each is applied once to arguments drawn by the       *)
(* initial state; ret is [status |-> "returned", value |-> v] or           *)
(* [status |-> "threw", error |-> e].                                      *)
(***************************************************************************)

Returned(v) == [status |-> "returned", value |-> v]
Threw(e)    == [status |-> "threw", error |-> e]

InitCall ==
    /\ args = [fn |-> "none"]
    /\ ret = [status |-> "none"]

CallOnly == UNCHANGED <<args, deviceVars, poolVars, loopVars, presVars, inputVars, passVars,
                        bufferVars>>

MaxMemoryTypes == 3     \* memProperties.memoryTypeCount

\* VkMemoryPropertyFlags as the set of the flags that are set
PropertyFlags == SUBSET {"DEVICE_LOCAL", "HOST_VISIBLE"}

\* x & (1 << i), as a truth value
BitSet(x, i) == (x \div (2 ^ i)) % 2 = 1

\* The test of the scan without the type filter
Suitable_IgnoreFilter(typeFilter, properties, memoryTypes, i) ==
    properties \subseteq memoryTypes[i + 1]

\* (typeFilter & (1 << i)) && (memoryTypes[i].propertyFlags & properties) == properties
Suitable(typeFilter, properties, memoryTypes, i) ==
    /\ BitSet(typeFilter, i)
    /\ (memoryTypes[i + 1] \cap properties) = properties

\* The loop of vkFindMemoryType from index i on
RECURSIVE FindFrom(_, _, _, _)
FindFrom(typeFilter, properties, memoryTypes, i) ==
    IF i >= Len(memoryTypes) THEN Threw("Failed to find suitable memory type.")
    ELSE IF Suitable(typeFilter, properties, memoryTypes, i) THEN Returned(i)
    ELSE FindFrom(typeFilter, properties, memoryTypes, i + 1)

\* Device::vkFindMemoryType over the memory types of the physical device
vkFindMemoryType(typeFilter, properties, memoryTypes) ==
    FindFrom(typeFilter, properties, memoryTypes, 0)

InitFindMemoryType ==
    /\ args \in [fn : {"vkFindMemoryType"},
                 typeFilter : 0..(2 ^ MaxMemoryTypes - 1),
                 properties : PropertyFlags,
                 memoryTypes : SeqsUpTo(PropertyFlags, MaxMemoryTypes)]
    /\ ret = [status |-> "none"]

FindMemoryType ==
    /\ ret.status = "none"
    /\ args.fn = "vkFindMemoryType"
    /\ ret' = vkFindMemoryType(args.typeFilter, args.properties, args.memoryTypes)
    /\ CallOnly

MaxExtent == 2     \* widths and heights of real extents run over 0..MaxExtent

\* VkExtent2D values: real extents, and the extent a surface reports as
\* currentExtent when its size is set by the swapchain (both UINT32_MAX)
Extents == [width : 0..MaxExtent, height : 0..MaxExtent]
VariableExtent == [width |-> UIntMax, height |-> UIntMax]

\* std::min(hi, x) alone
Clamp_NoLowerBound(lo, hi, x) == Min({hi, x})

\* std::max(lo, std::min(hi, x))
Clamp(lo, hi, x) == Max(lo, Min({hi, x}))

\* Presentable::chooseSwapExtent
chooseSwapExtent(caps, windowExtent) ==
    IF caps.currentExtent.width # UIntMax
    THEN Returned(caps.currentExtent)
    ELSE Returned([width  |-> Clamp(caps.minImageExtent.width, caps.maxImageExtent.width,
                                    windowExtent.width),
                   height |-> Clamp(caps.minImageExtent.height, caps.maxImageExtent.height,
                                    windowExtent.height)])

InitChooseSwapExtent ==
    /\ args \in [fn : {"chooseSwapExtent"},
                 capabilities : [currentExtent : Extents \cup {VariableExtent},
                                 minImageExtent : Extents,
                                 maxImageExtent : Extents],
                 windowExtent : Extents]
    /\ ret = [status |-> "none"]

ChooseSwapExtent ==
    /\ ret.status = "none"
    /\ args.fn = "chooseSwapExtent"
    /\ ret' = chooseSwapExtent(args.capabilities, args.windowExtent)
    /\ CallOnly

MaxAvailable == 2     \* surface formats / present modes the surface reports

SurfaceFormats == [format : {"B8G8R8A8_SRGB", "B8G8R8A8_UNORM", "R8G8B8A8_SRGB"},
                   colorSpace : {"SRGB_NONLINEAR_KHR", "DISPLAY_P3_NONLINEAR_EXT"}]
PresentModes == {"IMMEDIATE_KHR", "MAILBOX_KHR", "FIFO_KHR", "FIFO_RELAXED_KHR"}

\* The first loop of chooseSurfaceFormat from position i on: the position of
\* the first preferred format, 0 when the loop ends without one
RECURSIVE PreferredFrom(_, _)
PreferredFrom(availableFormats, i) ==
    IF i > Len(availableFormats) THEN 0
    ELSE IF /\ availableFormats[i].format = "B8G8R8A8_SRGB"
            /\ availableFormats[i].colorSpace = "SRGB_NONLINEAR_KHR"
    THEN i
    ELSE PreferredFrom(availableFormats, i + 1)

\* chooseSurfaceFormat without the search for the preferred format
chooseSurfaceFormat_FirstOnly(availableFormats) ==
    IF availableFormats # <<>> THEN Returned(availableFormats[1])
    ELSE Threw("No available surface formats found.")

\* Presentable::chooseSurfaceFormat
chooseSurfaceFormat(availableFormats) ==
    LET found == PreferredFrom(availableFormats, 1) IN
    IF found # 0 THEN Returned(availableFormats[found])
    ELSE IF availableFormats # <<>> THEN Returned(availableFormats[1])
    ELSE Threw("No available surface formats found.")

\* The loop of choosePresentMode from position i on
RECURSIVE MailboxFrom(_, _)
MailboxFrom(availablePresentModes, i) ==
    IF i > Len(availablePresentModes) THEN FALSE
    ELSE IF availablePresentModes[i] = "MAILBOX_KHR" THEN TRUE
    ELSE MailboxFrom(availablePresentModes, i + 1)

\* Presentable::choosePresentMode
choosePresentMode(availablePresentModes) ==
    IF MailboxFrom(availablePresentModes, 1) THEN Returned("MAILBOX_KHR")
    ELSE Returned("FIFO_KHR")

InitChooseFormat ==
    /\ args \in [fn : {"chooseSurfaceFormat"},
                 availableFormats : SeqsUpTo(SurfaceFormats, MaxAvailable)]
              \cup [fn : {"choosePresentMode"},
                    availablePresentModes : SeqsUpTo(PresentModes, MaxAvailable)]
    /\ ret = [status |-> "none"]

ChooseSurfaceFormat ==
    /\ ret.status = "none"
    /\ args.fn = "chooseSurfaceFormat"
    /\ ret' = chooseSurfaceFormat(args.availableFormats)
    /\ CallOnly

ChoosePresentMode ==
    /\ ret.status = "none"
    /\ args.fn = "choosePresentMode"
    /\ ret' = choosePresentMode(args.availablePresentModes)
    /\ CallOnly

(***************************************************************************)
(* DevicePicker::makeDefaultPicker: the default scorer.  The adapter is    *)
(* what the driver reports for one physical device; the scores are sums of *)
(* small whole numbers, which the float of the source represents exactly.  *)
(***************************************************************************)
MaxDimSteps == 2      \* maxImageDimension2D is a multiple of 4096 up to this many

ExtensionNames == {"VK_KHR_swapchain", "VK_KHR_maintenance1"}
QueueFlagSets == { {}, {"Graphics"}, {"Compute", "Transfer"},
                   {"Graphics", "Compute", "Transfer"} }
DeviceTypes == {"DISCRETE_GPU", "INTEGRATED_GPU", "CPU"}

ScoredAdapters ==
    [fn : {"score"},
     extensions : SUBSET ExtensionNames,
     available : SUBSET ExtensionNames,
     families : SeqsUpTo(QueueFlagSets, MaxFamilies),
     deviceType : DeviceTypes,
     maxImageDimension2D : {4096 * k : k \in 1..MaxDimSteps},
     samplerAnisotropy : BOOLEAN,
     rayTracingExtension : BOOLEAN,
     rayTracingPipeline : BOOLEAN,
     geometryShader : BOOLEAN]

supportsExtensions(device, requiredExtensions) ==
    LET extensionsToCheck == IF requiredExtensions = {} THEN device.extensions
                             ELSE requiredExtensions
    IN  \A req \in extensionsToCheck : req \in device.available

supportsSwapchain(device) == supportsExtensions(device, {"VK_KHR_swapchain"})

hasRequiredQueues_GraphicsOnly(device) ==
    /\ Len(device.families) # 0
    /\ \E i \in 1..Len(device.families) : "Graphics" \in device.families[i]

hasRequiredQueues(device) ==
    /\ Len(device.families) # 0
    /\ \E i \in 1..Len(device.families) : "Graphics" \in device.families[i]
    /\ \E i \in 1..Len(device.families) : "Compute" \in device.families[i]
    /\ \E i \in 1..Len(device.families) : "Transfer" \in device.families[i]

supportsRaytracing(device) ==
    IF ~device.rayTracingExtension THEN FALSE ELSE device.rayTracingPipeline

DefaultScore(device) ==
    IF ~supportsExtensions(device, {}) THEN 0
    ELSE IF ~supportsSwapchain(device) THEN 0
    ELSE IF ~hasRequiredQueues(device) THEN 0
    ELSE (IF device.deviceType = "DISCRETE_GPU" THEN 1000
          ELSE IF device.deviceType = "INTEGRATED_GPU" THEN 500
          ELSE 100)
         + device.maxImageDimension2D
         + (IF device.samplerAnisotropy THEN 200 ELSE 0)
         + (IF supportsRaytracing(device) THEN 500 ELSE 0)
         + (IF device.geometryShader THEN 300 ELSE 0)

InitScore == /\ args \in ScoredAdapters
             /\ ret = [status |-> "none"]

Score ==
    /\ ret.status = "none"
    /\ args.fn = "score"
    /\ ret' = Returned(DefaultScore(args))
    /\ CallOnly

(***************************************************************************)
(* A client that requests buffers for any pipeline and any presentable and *)
(* ends them; args holds the arguments of the latest request.              *)
(***************************************************************************)

PoolRequest ==
    /\ pc = "api"
    /\ \E pipeline \in RenderPipelines, presentable \in Presentables, poolOk, allocOk \in BOOLEAN :
          /\ DoRequest(pipeline, presentable, poolOk, allocOk)
          /\ args' = [fn |-> "requestCommandBuffer", pipeline |-> pipeline,
                      presentable |-> presentable]
    /\ UNCHANGED <<ret, deviceVars, loopVars, presVars, inputVars, passVars, bufferVars>>

PoolEnd ==
    /\ pc = "api"
    /\ \E b \in 1..Len(commandBuffers) : DoEnd(b)
    /\ PoolOnly

(***************************************************************************)
(* Texture: Device::createTexture, Texture::load, Texture::createImage and *)
(* Texture::activateTexture.  A native call that can fail is named in      *)
(* failing when it does.                                                   *)
(***************************************************************************)
MaxTexels == 2      \* largest width and height of a texture

TextureSizes == 1..MaxTexels
Channels == {3, 4}
TextureNativeCalls == {"vkCreateBuffer", "vkAllocateMemory", "vkCreateImage",
                       "vkAllocateMemory(image)", "vkCreateImageView"}
TextureFailures == {{}} \cup {{c} : c \in TextureNativeCalls}

NoTexture == [width |-> 0, height |-> 0, imageSize |-> 0,
              extent |-> [width |-> 0, height |-> 0, depth |-> 0]]

\* Texture::createImage: the texture with the extent of its VkImage, or the error thrown
createImage(texture, width, height, failing) ==
    LET made == [texture EXCEPT !.extent = [width |-> width, height |-> height, depth |-> 1]] IN
    IF "vkCreateImage" \in failing THEN Threw("Failed to create image.")
    ELSE IF "vkAllocateMemory(image)" \in failing THEN Threw("Failed to allocate image memory.")
    ELSE IF "vkCreateImageView" \in failing THEN Threw("Failed to create image view.")
    ELSE Returned(made)

\* Texture::load(imageData, imageSize, device, height, width)
load(texture, imageSize, height, width, failing) ==
    LET sized == [texture EXCEPT !.height = height, !.width = width, !.imageSize = imageSize] IN
    IF "vkCreateBuffer" \in failing THEN Threw("Failed to create image buffer.")
    ELSE IF "vkAllocateMemory" \in failing THEN Threw("Failed to allocate image memory.")
    ELSE createImage(sized, width, height, failing)

\* Device::createTexture(width, height, channels, data): the Device after
\* the call and the Texture returned or the error thrown
createTexture(device, width, height, channels, failing) ==
    [device |-> device,
     ret |-> load(NoTexture, width * height * channels, width, height, failing)]

\* Texture::activateTexture: the commands it records, in order
activateTexture(texture) ==
    [call |-> "activateTexture",
     commands |-> <<[cmd |-> "vkCmdPipelineBarrier", oldLayout |-> "UNDEFINED",
                     newLayout |-> "TRANSFER_DST_OPTIMAL"],
                    [cmd |-> "vkCmdCopyBufferToImage",
                     dstImageLayout |-> "TRANSFER_DST_OPTIMAL",
                     imageExtent |-> [width |-> texture.width, height |-> texture.height,
                                      depth |-> 1]]>>]

\* The Device members the factory operations are handed through *this
ThisDevice ==
    [physicalDevice |-> physicalDevice, queues |-> queues, extensions |-> extensions,
     commandPool |-> commandPool, commandBuffers |-> commandBuffers]

InitCreateTexture ==
    /\ args \in [fn : {"createTexture"}, width : TextureSizes, height : TextureSizes,
                 channels : Channels]
    /\ ret = [status |-> "none"]

CreateTexture ==
    /\ ret.status = "none"
    /\ args.fn = "createTexture"
    /\ \E failing \in TextureFailures :
          ret' = createTexture(ThisDevice, args.width, args.height, args.channels, failing).ret
    /\ CallOnly

ActivateTexture ==
    /\ ret.status = "returned"
    /\ args.fn = "createTexture"
    /\ \E b \in 1..Len(commandBuffers) :
          Call("activateTexture", b, commandBuffers[b], activateTexture(ret.value))
    /\ PoolOnly

(***************************************************************************)
(* The factory operations of Device.  Each takes the Device it is called   *)
(* on and whether its native work succeeds, and yields the Device after    *)
(* the call with the object returned or the error thrown.                  *)
(***************************************************************************)

\* makePresentable const: the Presentable copies the Device and creates its swapchain
makePresentable(device, ok) ==
    [device |-> device,
     ret |-> IF ok THEN Returned([object |-> "Presentable", device |-> device])
             ELSE Threw("Failed to create swapchain.")]

\* makeDepthFormat const
makeDepthFormat(device, supported) ==
    [device |-> device,
     ret |-> IF supported THEN Returned([object |-> "Format", format |-> "D32_SFLOAT"])
             ELSE Threw("Depth format VK_FORMAT_D32_SFLOAT is not supported by the device")]

\* makeColorFormat const
makeColorFormat(device, supported) ==
    [device |-> device,
     ret |-> IF supported THEN Returned([object |-> "Format", format |-> "B8G8R8A8_SRGB"])
             ELSE Threw("Color format VK_FORMAT_B8G8R8A8_SRGB is not supported by the device")]

\* makeRenderPass: moves the attachments into a RenderPass and creates it
\* against the Device, which RenderPass::create takes as const
makeRenderPass(device, ok) ==
    [device |-> device,
     ret |-> IF ok THEN Returned([object |-> "RenderPass"])
             ELSE Threw("Failed to create render pass.")]

\* makeShader const, from source or from compiled code
makeShader(device, ok) ==
    [device |-> device,
     ret |-> IF ok THEN Returned([object |-> "ShaderModule"])
             ELSE Threw("Failed to create shader module.")]

\* makeRenderPipeline const: RenderPipeline(*this)
makeRenderPipeline(device) ==
    [device |-> device, ret |-> Returned([object |-> "RenderPipeline", device |-> device])]

\* makeUniformBlock that empties the registry of the Device
makeUniformBlock_ClearsRegistry(device, ok) ==
    [device |-> [device EXCEPT !.commandBuffers = <<>>],
     ret |-> IF ok THEN Returned([object |-> "UniformBlock", device |-> device])
             ELSE Threw("Failed to create uniform buffer.")]

\* makeUniformBlock: the UniformBlock copies the Device; create takes it as const
makeUniformBlock(device, ok) ==
    [device |-> device,
     ret |-> IF ok THEN Returned([object |-> "UniformBlock", device |-> device])
             ELSE Threw("Failed to create uniform buffer.")]

FactoryNames == {"makePresentable", "makeDepthFormat", "makeColorFormat", "makeRenderPass",
                 "makeShader", "makeRenderPipeline", "makeUniformBlock", "createTexture"}

\* One call of a factory operation: r is what the operation yields
Factory(fn, r) ==
    /\ pc = "api"
    /\ args' = [fn |-> fn]
    /\ ret' = r.ret
    /\ physicalDevice' = r.device.physicalDevice
    /\ queues' = r.device.queues
    /\ extensions' = r.device.extensions
    /\ commandPool' = r.device.commandPool
    /\ commandBuffers' = r.device.commandBuffers
    /\ UNCHANGED <<adapters, logicalDevice, deviceCreateInfo, initStatus, pools, lastCall,
                   loopVars, presVars, inputVars, passVars, bufferVars>>

MakePresentable    == \E ok \in BOOLEAN : Factory("makePresentable", makePresentable(ThisDevice, ok))
MakeDepthFormat    == \E ok \in BOOLEAN : Factory("makeDepthFormat", makeDepthFormat(ThisDevice, ok))
MakeColorFormat    == \E ok \in BOOLEAN : Factory("makeColorFormat", makeColorFormat(ThisDevice, ok))
MakeRenderPass     == \E ok \in BOOLEAN : Factory("makeRenderPass", makeRenderPass(ThisDevice, ok))
MakeShader         == \E ok \in BOOLEAN : Factory("makeShader", makeShader(ThisDevice, ok))
MakeRenderPipeline == Factory("makeRenderPipeline", makeRenderPipeline(ThisDevice))
MakeUniformBlock   == \E ok \in BOOLEAN : Factory("makeUniformBlock", makeUniformBlock(ThisDevice, ok))
MakeTexture ==
    \E width, height \in TextureSizes, channels \in Channels, failing \in TextureFailures :
       Factory("createTexture", createTexture(ThisDevice, width, height, channels, failing))

-----------------------------------------------------------------------------
(* Specifications *)

\* The command-buffer pool under a client that calls the API in any order
Init == /\ InitDeviceReady /\ InitPool /\ InitPresentableReady /\ InitInput /\ InitPass /\ InitBuffer /\ InitCall
        /\ pc = "api" /\ held = 0 /\ frames = 0

Next == \/ ApiRequest \/ ApiBegin \/ ApiBeginRendering \/ ApiDraw
        \/ ApiEndRendering \/ ApiEnd \/ ApiSubmit \/ ApiPresent

Spec == Init /\ [][Next]_vars

\* The command-buffer pool under the frame loop of main
InitFrame == /\ InitDeviceReady /\ InitPool /\ InitPresentableReady /\ InitInput /\ InitPass /\ InitBuffer /\ InitCall
             /\ pc = "request" /\ held = 0 /\ frames = 0

NextFrame == \/ LoopRequest \/ LoopBegin \/ LoopBeginRendering \/ LoopDraw
             \/ LoopEndRendering \/ LoopEnd \/ LoopSubmit \/ LoopPresent \/ LoopClose

SpecFrame == InitFrame /\ [][NextFrame]_vars

\* Device::init over every enumerated adapter list
InitDevice == /\ InitDeviceNew /\ InitPool /\ InitPresentableNone /\ InitInput /\ InitPass /\ InitBuffer /\ InitCall
              /\ pc = "api" /\ held = 0 /\ frames = 0

NextDevice == DeviceInit

SpecDevice == InitDevice /\ [][NextDevice]_vars

\* A Presentable over every capability report
InitPres == /\ InitDeviceReady /\ InitPool /\ InitPresentable /\ InitInput /\ InitPass /\ InitBuffer /\ InitCall
            /\ pc = "api" /\ held = 0 /\ frames = 0

NextPres == PresentableCreate \/ PresentableDestroy

SpecPres == InitPres /\ [][NextPres]_vars

\* An InputDescriptor over every field list
InitDescriptor == /\ InitDeviceReady /\ InitPool /\ InitPresentableReady /\ InitInput /\ InitPass /\ InitBuffer /\ InitCall
                  /\ pc = "api" /\ held = 0 /\ frames = 0

NextDescriptor == AddItem \/ BuildInputLayout

SpecInput == InitDescriptor /\ [][NextDescriptor]_vars

\* A RenderPass over every attachment list
InitRenderPass == /\ InitDeviceReady /\ InitPool /\ InitPresentableReady /\ InitInput
                  /\ InitPass /\ InitBuffer /\ InitCall
                  /\ pc = "api" /\ held = 0 /\ frames = 0

NextRenderPass == AddAttachment \/ PassCreate

SpecPass == InitRenderPass /\ [][NextRenderPass]_vars

\* A Buffer under uploads of every size
InitUpload == /\ InitDeviceReady /\ InitPool /\ InitPresentableReady /\ InitInput
              /\ InitPass /\ InitBuffer /\ InitCall
              /\ pc = "api" /\ held = 0 /\ frames = 0

NextUpload == PushData

SpecBuffer == InitUpload /\ [][NextUpload]_vars

\* vkFindMemoryType over every filter, request and memory type list
InitMemory == /\ InitDeviceReady /\ InitPool /\ InitPresentableReady /\ InitInput
              /\ InitPass /\ InitBuffer /\ InitFindMemoryType
              /\ pc = "api" /\ held = 0 /\ frames = 0

NextMemory == FindMemoryType

SpecMemory == InitMemory /\ [][NextMemory]_vars

\* chooseSwapExtent over every capability report and window extent
InitExtent == /\ InitDeviceReady /\ InitPool /\ InitPresentableReady /\ InitInput
              /\ InitPass /\ InitBuffer /\ InitChooseSwapExtent
              /\ pc = "api" /\ held = 0 /\ frames = 0

NextExtent == ChooseSwapExtent

SpecExtent == InitExtent /\ [][NextExtent]_vars

\* chooseSurfaceFormat and choosePresentMode over every reported list
InitFormat == /\ InitDeviceReady /\ InitPool /\ InitPresentableReady /\ InitInput
              /\ InitPass /\ InitBuffer /\ InitChooseFormat
              /\ pc = "api" /\ held = 0 /\ frames = 0

NextFormat == ChooseSurfaceFormat \/ ChoosePresentMode

SpecFormat == InitFormat /\ [][NextFormat]_vars


InitScoring == /\ InitDeviceReady /\ InitPool /\ InitPresentableReady /\ InitInput
               /\ InitPass /\ InitBuffer /\ InitScore
               /\ pc = "api" /\ held = 0 /\ frames = 0

NextScoring == Score

SpecScore == InitScoring /\ [][NextScoring]_vars


\* requestCommandBuffer for any pipeline and presentable, and end()
InitRequests == /\ InitDeviceReady /\ InitPool /\ InitPresentableReady /\ InitInput
                /\ InitPass /\ InitBuffer /\ InitCall
                /\ pc = "api" /\ held = 0 /\ frames = 0

NextRequests == PoolRequest \/ PoolEnd

SpecPool == InitRequests /\ [][NextRequests]_vars


\* createTexture for every size, then activateTexture on a requested buffer
InitTexture == /\ InitDeviceReady /\ InitPool /\ InitPresentableReady /\ InitInput
               /\ InitPass /\ InitBuffer /\ InitCreateTexture
               /\ pc = "api" /\ held = 0 /\ frames = 0

NextTexture == CreateTexture \/ ApiRequest \/ ApiBegin \/ ActivateTexture

SpecTexture == InitTexture /\ [][NextTexture]_vars


\* The factory operations between requestCommandBuffer and end() calls
InitFactory == /\ InitDeviceReady /\ InitPool /\ InitPresentableReady /\ InitInput
               /\ InitPass /\ InitBuffer /\ InitCall
               /\ pc = "api" /\ held = 0 /\ frames = 0

NextFactory == \/ ApiRequest \/ ApiEnd
               \/ MakePresentable \/ MakeDepthFormat \/ MakeColorFormat \/ MakeRenderPass
               \/ MakeShader \/ MakeRenderPipeline \/ MakeUniformBlock \/ MakeTexture

SpecFactory == InitFactory /\ [][NextFactory]_vars

-----------------------------------------------------------------------------
(* Claims *)

NotInUse(bufs) == {i \in 1..Len(bufs) : ~bufs[i].inUse}

\* C1: a requestCommandBuffer call that returns hands out a buffer flagged
\* not-in-use and leaves the registry as it is when the registry holds such a
\* buffer; otherwise it appends exactly one new buffer to the registry and
\* returns that one (so requests made while nothing is free grow the registry
\* by one each).
C1_RequestRecyclesOrAppends ==
    [][(lastCall'.op = "request" /\ lastCall'.buf # 0) =>
         IF NotInUse(commandBuffers) # {}
         THEN /\ commandBuffers' = commandBuffers
              /\ lastCall'.buf \in NotInUse(commandBuffers)
         ELSE /\ Len(commandBuffers') = Len(commandBuffers) + 1
              /\ SubSeq(commandBuffers', 1, Len(commandBuffers)) = commandBuffers
              /\ lastCall'.buf = Len(commandBuffers')]_vars

\* C1 witness: two requests grew the registry to two buffers, and a later
\* request was answered with the freed first one
C1_Witness ==
    /\ lastCall.op = "request"
    /\ lastCall.buf = 1
    /\ Len(commandBuffers) = 2
    /\ ~commandBuffers[1].inUse
    /\ commandBuffers[2].inUse

\* C2: a buffer that is Ended or Submitted is still flagged in-use; it is
\* flagged not-in-use only once present() of its cycle has run.
C2_FreeOnlyAfterPresent ==
    \A b \in 1..Len(commandBuffers) :
        commandBuffers[b].phase \in {"Ended", "Submitted"} => commandBuffers[b].inUse

\* C3: in the frame loop, where one buffer is allocated by the first request,
\* every request after a full cycle returns that same buffer and the registry
\* keeps length 1, for every number of cycles.
C3_PoolIdempotent ==
    /\ Len(commandBuffers) <= 1
    /\ pc \notin {"request", "aborted", "done"} => held = 1 /\ Len(commandBuffers) = 1

\* C3 witness: the request of the third frame returned buffer 1 again
C3_Witness ==
    /\ frames = 2
    /\ pc = "begin"
    /\ lastCall.op = "request"
    /\ lastCall.buf = 1
    /\ held = 1
    /\ commandBuffers[1].phase = "Presented"

\* The calls the lifecycle allows: <<state of the buffer, operation>>
LegalCalls == { <<"Initial", "begin">>, <<"Presented", "begin">>,
                <<"Begun", "beginRendering">>,
                <<"Rendering", "draw">>, <<"Rendering", "endRendering">>,
                <<"RenderEnded", "end">>,
                <<"Ended", "submit">>,
                <<"Submitted", "present">> }

\* C4: every operation that takes effect on a command buffer is the next one
\* of the cycle begin, beginRendering, (bind/draw)*, endRendering, end, submit,
\* present.
C4_CallsFollowCycle ==
    [][(lastCall'.op # "request" /\ lastCall'.buf # 0) =>
         <<commandBuffers[lastCall'.buf].phase, lastCall'.op>> \in LegalCalls]_vars

MaxOf(scores) == CHOOSE m \in {scores[i] : i \in 1..Len(scores)} :
                    \A i \in 1..Len(scores) : scores[i] <= m

\* C5: with at least one adapter, init selects the first adapter in enumeration
\* order whose score is the maximum; it never selects a score-0 adapter when a
\* candidate has a positive score.
C5_FirstMaximumSelected ==
    (initStatus # "new" /\ Len(adapters) > 0) =>
        /\ physicalDevice \in 1..Len(adapters)
        /\ adapters[physicalDevice] = MaxOf(adapters)
        /\ \A j \in 1..(physicalDevice - 1) : adapters[j] < MaxOf(adapters)
        /\ (\E i \in 1..Len(adapters) : adapters[i] > 0) => adapters[physicalDevice] # 0

\* C5 witness: init ran on two adapters with the same positive score and took the first
C5_Witness ==
    /\ initStatus = "ok"
    /\ Len(adapters) = 2
    /\ adapters[1] = adapters[2]
    /\ adapters[1] > 0
    /\ physicalDevice = 1

\* C6: when no adapter is enumerated or every enumerated adapter scores 0,
\* init ends in a fatal error with no adapter selected, no queue resolved and
\* no logical device.
C6_FatalWhenNoneEligible ==
    (initStatus # "new" /\ \A i \in 1..Len(adapters) : adapters[i] = 0) =>
        /\ initStatus \in {"No Vulkan-compatible devices found", "No suitable Vulkan device found"}
        /\ physicalDevice = NullHandle
        /\ queues = <<>>
        /\ logicalDevice = NullHandle

FamilyErrors == {"No suitable queue families found for the physical device",
                 "No graphics queue found for the physical device",
                 "No present queue found for the physical device"}

\* C7: when the selected adapter has no graphics family or no present family,
\* init fails in queue family resolution and no logical device is created;
\* after a successful init the queue list holds a graphics queue and a present
\* queue, so getGraphicsQueue and getPresentQueue find one.
C7_QueueResolution ==
    /\ (initStatus # "new" /\ physicalDevice # NullHandle
        /\ (~HasCapability(queues, "Graphics") \/ ~HasCapability(queues, "Present")))
          => initStatus \in FamilyErrors
    /\ initStatus \in FamilyErrors => logicalDevice = NullHandle
    /\ initStatus = "ok" =>
          /\ logicalDevice # NullHandle
          /\ getQueue(queues, "Graphics") # 0
          /\ getQueue(queues, "Present") # 0

\* C7 witness: an adapter with a graphics family and no present family made init fail
C7_Witness ==
    /\ initStatus = "No present queue found for the physical device"
    /\ physicalDevice # NullHandle
    /\ HasCapability(queues, "Graphics")
    /\ logicalDevice = NullHandle

\* C8: the destructor destroys every image view before the swapchain, each
\* handle once, and never a null handle.
C8_ViewsThenSwapchain ==
    presStatus = "destroyed" =>
        /\ \A i, j \in 1..Len(destroyLog) :
              (destroyLog[i].kind = "view" /\ destroyLog[j].kind = "swapchain") => i < j
        /\ \A i, j \in 1..Len(destroyLog) : destroyLog[i] = destroyLog[j] => i = j
        /\ \A i \in 1..Len(destroyLog) : destroyLog[i].handle # NullHandle

InRange(lo, x, hi) == lo <= x /\ x <= hi

ImageCountBounds ==
    LET lo == capabilities.minImageCount
        hi == capabilities.maxImageCount
    IN /\ hi > 0 => InRange(lo, imageCount, Max(lo, hi)) /\ InRange(lo, Len(images), Max(lo, hi))
       /\ hi = 0 => imageCount >= lo /\ Len(images) >= lo
       /\ Len(images) >= imageCount
       /\ \A i \in 1..Len(images) : images[i].image = i /\ images[i].view # NullHandle
       /\ \A i, j \in 1..Len(images) : images[i].view = images[j].view => i = j

\* C9 as stated: for all capability values the image count lies between
\* minImageCount and max(minImageCount, maxImageCount) (no upper limit when
\* maxImageCount = 0), with one view per image.
C9_ImageCountAllCapabilities == presStatus = "created" => ImageCountBounds

\* What a conforming surface reports: a maximum of 0 or at least the minimum,
\* and a minimum whose successor is a uint32_t
ConformingCapabilities ==
    /\ capabilities.minImageCount < UIntMax
    /\ capabilities.maxImageCount = 0 \/ capabilities.maxImageCount >= capabilities.minImageCount

\* C9 amended: for conforming capability values the image count lies between
\* minImageCount and max(minImageCount, maxImageCount) (no upper limit when
\* maxImageCount = 0), with one view per image.
C9_ImageCountConforming ==
    (presStatus = "created" /\ ConformingCapabilities) => ImageCountBounds

\* C9 witness: minImageCount = maxImageCount, the case the clamp is for
C9_Witness ==
    /\ presStatus = "created"
    /\ capabilities.minImageCount = 2
    /\ capabilities.maxImageCount = 2
    /\ imageCount = 2
    /\ Len(images) = 2

\* C10: buildInputLayout sets binding 0 with per-vertex rate and the sum of the
\* field sizes as stride, and gives each field the sum of the sizes of the
\* fields before it as offset.
C10_OffsetsAreCumulative ==
    inputStatus = "built" =>
        /\ binding = [binding |-> 0, stride |-> SumSizes(items, Len(items)), inputRate |-> "VERTEX"]
        /\ Len(attributes) = Len(items)
        /\ \A i \in 1..Len(items) : attributes[i].offset = SumSizes(items, i - 1)


\* C11: an InputDescriptor<N> never holds more than N items, and an addItem
\* on a full descriptor fails with the error "Too many items added" and
\* leaves the items it already holds unchanged; an addItem below capacity
\* appends exactly one item after the existing ones.
C11_AddItemBounded ==
    /\ [](Len(items) <= N)
    /\ [][inputStatus' # "built" =>
            IF Len(items) = N
            THEN /\ items' = items
                 /\ inputStatus' = "InputDescriptor: Too many items added"
            ELSE /\ Len(items') = Len(items) + 1
                 /\ SubSeq(items', 1, Len(items)) = items
                 /\ inputStatus' = "open"]_vars

C11_Witness ==
    /\ Len(items) = N
    /\ inputStatus = "InputDescriptor: Too many items added"

\* The configurations makeRenderAttachment must reject
Misused(a) ==
    \/ a.attachmentIndex < 0
    \/ a.loadOperation = "Store"
    \/ a.storeOperation = "Clear"

MisuseErrors ==
    { "Attachment index must be set before making a render attachment",
      "Store operation is not supported for Vulkan load op",
      "Clear operation is not supported for Vulkan store op" }

\* C12: an attachment with a negative index, Store as load policy or Clear
\* as store policy makes RenderPass::create fail with the error of
\* makeRenderAttachment, and no vkCreateRenderPass call is attempted; with no
\* such attachment the native call is attempted once.
C12_MisuseBeforeNativeCall ==
    (passStatus # "new" /\ attachments # <<>>) =>
        IF \E i \in 1..Len(attachments) : Misused(attachments[i])
        THEN /\ passStatus \in MisuseErrors
             /\ passCalls = <<>>
             /\ renderPass = NullHandle
        ELSE /\ passStatus \notin MisuseErrors
             /\ Len(passCalls) = 1
             /\ passCalls[1].call = "vkCreateRenderPass"

C12_Witness ==
    /\ Len(attachments) = 2
    /\ ~Misused(attachments[1])
    /\ attachments[2].loadOperation = "Store"
    /\ passStatus = "Store operation is not supported for Vulkan load op"
    /\ passCalls = <<>>

\* C20: RenderPass::create fails when there is no attachment; otherwise the
\* render pass it creates has exactly one subpass with one color attachment,
\* whose depth-stencil reference is the reference of attachment 1 exactly
\* when there are at least two attachments and attachment 1 has the depth
\* layout, and is null otherwise.
C20_SingleSubpassDepthReference ==
    passStatus # "new" =>
        /\ attachments = <<>> =>
               /\ passStatus = "No attachments specified to create the Render Pass"
               /\ passCalls = <<>>
        /\ passCalls # <<>> =>
               /\ attachments # <<>>
               /\ passCalls[1].subpassCount = 1
               /\ subpass.colorAttachmentCount = 1
               /\ subpass.pDepthStencilAttachment =
                      IF Len(attachments) >= 2 /\ attachments[2].layout = "DepthAttachment"
                      THEN 1 ELSE NullPointer

C20_Witness ==
    /\ passStatus = "created"
    /\ Len(attachments) = 2
    /\ attachments[2].layout = "DepthAttachment"
    /\ subpass.pDepthStencilAttachment = 1

\* C13: the native buffer and its memory are created by the first pushData
\* only, with the allocation sized to that first payload; no later pushData
\* creates a buffer, allocates memory or changes the allocation size.
C13_CreatedByFirstUploadOnly ==
    [][/\ (buffer = NullHandle /\ buffer' # NullHandle) =>
              /\ memory' # NullHandle
              /\ allocationSize' = bufferCalls'[1].size
       /\ buffer # NullHandle =>
              /\ buffer' = buffer
              /\ memory' = memory
              /\ allocationSize' = allocationSize]_vars

\* C14: pushData never maps or copies more bytes than the allocation made by
\* the first upload holds.
C14_UploadWithinAllocation ==
    memory # NullHandle =>
        \A i \in 1..Len(bufferCalls) :
            bufferCalls[i].call \in {"vkMapMemory", "memcpy"} =>
                bufferCalls[i].size <= allocationSize

\* C15: a native call of pushData that returns an error is the last native
\* call of that pushData, which ends in a runtime_error; nothing is bound,
\* mapped or copied after a failed call.
C15_NativeFailureIsFatal ==
    \A i \in 1..Len(bufferCalls) :
        (bufferCalls[i].call # "memcpy" /\ bufferCalls[i].result = "VK_ERROR") =>
            /\ i = Len(bufferCalls)
            /\ bufferStatus \notin {"new", "uploaded", "crashed"}

Destroyed(kind, handle) ==
    \E i \in 1..Len(destroyLog) : destroyLog[i] = [kind |-> kind, handle |-> handle]

\* C16: when Presentable::create fails at one of its steps, the swapchain and
\* the image views its earlier steps created have been destroyed by the time
\* the error reaches the caller.
C16_NoLeakOnFailure ==
    presStatus = "failed" =>
        /\ swapchain # NullHandle => Destroyed("swapchain", swapchain)
        /\ \A i \in 1..Len(images) : Destroyed("view", images[i].view)

\* The native queue handles of the queue records with capability c
QueuesWith(c) == { queues[i].queue : i \in { j \in 1..Len(queues) : c \in queues[j].capabilities } }

\* What submit does whatever the wait stage: it waits on the semaphore of the
\* same buffer that its beginRendering handed to the acquire, signals that
\* buffer's render-finished semaphore and goes to the graphics queue.
SubmitSemaphoresAndQueue ==
    /\ lastCall.op = "beginRendering" =>
           lastCall.native.semaphore = Semaphore(lastCall.buf, "imageAvailableSemaphore")
    /\ lastCall.op = "submit" =>
           /\ lastCall.native.call = "vkQueueSubmit"
           /\ lastCall.native.commandBuffer = lastCall.buf
           /\ lastCall.native.waitSemaphore = Semaphore(lastCall.buf, "imageAvailableSemaphore")
           /\ lastCall.native.signalSemaphore =
                  Semaphore(lastCall.buf, "renderFinishedSemaphore")
           /\ lastCall.native.queue \in QueuesWith("Graphics")

\* C17 as stated: submit waits on the buffer's image-available semaphore at
\* the color-attachment-output stage, signals the buffer's render-finished
\* semaphore and is issued on the graphics queue.
C17_SubmitAtColorAttachmentOutput ==
    /\ SubmitSemaphoresAndQueue
    /\ lastCall.op = "submit" =>
           lastCall.native.waitDstStageMask = "COLOR_ATTACHMENT_OUTPUT_BIT"

\* C17 amended: submit waits on the buffer's image-available semaphore with
\* the wait stage set to all-commands, signals the buffer's render-finished
\* semaphore and is issued on the graphics queue.
C17_SubmitAtAllCommands ==
    /\ SubmitSemaphoresAndQueue
    /\ lastCall.op = "submit" => lastCall.native.waitDstStageMask = "ALL_COMMANDS_BIT"

C17_Witness ==
    /\ lastCall.op = "submit"
    /\ lastCall.buf = 2
    /\ commandBuffers[1].phase = "Rendering"
    /\ lastCall.native.queue = 1

\* C18: present waits on the buffer's render-finished semaphore, is issued on
\* the present queue and presents the image index held by that buffer; the
\* index a buffer holds is the one its own beginRendering received from the
\* acquire, and no call on another buffer changes it.
C18_PresentsOwnAcquiredImage ==
    /\ [](lastCall.op = "present" =>
             /\ lastCall.native.call = "vkQueuePresentKHR"
             /\ lastCall.native.waitSemaphore =
                    Semaphore(lastCall.buf, "renderFinishedSemaphore")
             /\ lastCall.native.queue \in QueuesWith("Present")
             /\ lastCall.native.imageIndex = commandBuffers[lastCall.buf].imageIndex)
    /\ [][\A b \in 1..Len(commandBuffers) :
             IF lastCall'.op = "beginRendering" /\ lastCall'.buf = b
             THEN commandBuffers'[b].imageIndex = lastCall'.native.imageIndexLocal
             ELSE commandBuffers'[b].imageIndex = commandBuffers[b].imageIndex]_vars

C18_Witness ==
    /\ lastCall.op = "present"
    /\ lastCall.buf = 1
    /\ lastCall.native.imageIndex = 1
    /\ lastCall.native.queue = 2
    /\ Len(commandBuffers) = 2
    /\ commandBuffers[2].phase = "Rendering"
    /\ commandBuffers[2].imageIndex = 0

\* The queue-create entries of the device create info that name family f
RequestsFor(f) ==
    { i \in 1..Len(deviceCreateInfo.queueCreateInfos) :
        deviceCreateInfo.queueCreateInfos[i].queueFamilyIndex = f }

\* C19: the create info handed to vkCreateDevice requests exactly one queue
\* for each family that carries a capability and none for a family without,
\* with samplerAnisotropy enabled; once the device exists every queue record
\* with a capability holds the non-null queue of its own family, a family
\* that was requested, and a record without capabilities holds none.
C19_OneQueuePerCapableFamily ==
    /\ initStatus \in {"ok", "Failed to create logical device"} =>
           /\ deviceCreateInfo.samplerAnisotropy
           /\ \A i \in 1..Len(queues) :
                  /\ Cardinality(RequestsFor(queues[i].familyIndex)) =
                         IF queues[i].capabilities # {} THEN 1 ELSE 0
                  /\ \A k \in RequestsFor(queues[i].familyIndex) :
                         deviceCreateInfo.queueCreateInfos[k].queueCount = 1
           /\ \A k \in 1..Len(deviceCreateInfo.queueCreateInfos) :
                  \E i \in 1..Len(queues) :
                     queues[i].familyIndex =
                        deviceCreateInfo.queueCreateInfos[k].queueFamilyIndex
    /\ initStatus = "ok" =>
           \A i \in 1..Len(queues) :
              IF queues[i].capabilities # {}
              THEN /\ queues[i].queue # NullHandle
                   /\ queues[i].queue = queues[i].familyIndex + 1
                   /\ RequestsFor(queues[i].familyIndex) # {}
              ELSE queues[i].queue = NullHandle

C19_Witness ==
    /\ initStatus = "ok"
    /\ Len(queues) = 2
    /\ queues[1].capabilities = {}
    /\ queues[2].queue = 2
    /\ deviceCreateInfo.queueCreateInfos = <<[queueFamilyIndex |-> 1, queueCount |-> 1]>>

\* C21: in every render pass that RenderPass::create hands to
\* vkCreateRenderPass the color-attachment reference of the subpass is the
\* reference of the first attachment and designates attachment number 0 in
\* the color-attachment-optimal layout.
C21_ColorReferenceIsAttachmentZero ==
    passCalls # <<>> =>
        /\ subpass.pColorAttachments = 0
        /\ attachments[subpass.pColorAttachments + 1].reference =
              [attachment |-> 0, layout |-> "COLOR_ATTACHMENT_OPTIMAL"]


\* The indices below memoryTypeCount whose filter bit is set and whose flags
\* include every requested flag
MatchingTypes ==
    { i \in 0..(Len(args.memoryTypes) - 1) :
        /\ (args.typeFilter \div (2 ^ i)) % 2 = 1
        /\ args.properties \subseteq args.memoryTypes[i + 1] }

\* C22: vkFindMemoryType returns the smallest index below memoryTypeCount
\* whose bit of typeFilter is set and whose flags include every requested
\* flag, and throws exactly when there is no such index.
C22_FirstMatchingMemoryType ==
    (args.fn = "vkFindMemoryType" /\ ret.status # "none") =>
        IF MatchingTypes = {}
        THEN ret = Threw("Failed to find suitable memory type.")
        ELSE /\ ret.status = "returned"
             /\ ret.value \in MatchingTypes
             /\ \A i \in MatchingTypes : ret.value <= i

C22_Witness ==
    /\ args.fn = "vkFindMemoryType"
    /\ ret.status = "returned"
    /\ ret.value = 1
    /\ args.properties \subseteq args.memoryTypes[1]
    /\ Cardinality(MatchingTypes) = 2


\* x brought into lo..hi, for lo <= hi
Clamped(lo, hi, x) == IF x < lo THEN lo ELSE IF x > hi THEN hi ELSE x

\* C23: chooseSwapExtent returns the current extent of the capabilities
\* unchanged when it is not the variable-extent value; otherwise it returns
\* the window extent with width and height each clamped into the reported
\* range, which lies within that range whenever min <= max.
C23_ExtentCurrentOrClamped ==
    (args.fn = "chooseSwapExtent" /\ ret.status # "none") =>
        LET caps == args.capabilities
            lo == caps.minImageExtent
            hi == caps.maxImageExtent
        IN  /\ ret.status = "returned"
            /\ caps.currentExtent # VariableExtent => ret.value = caps.currentExtent
            /\ caps.currentExtent = VariableExtent =>
                  /\ lo.width <= hi.width =>
                        /\ ret.value.width = Clamped(lo.width, hi.width, args.windowExtent.width)
                        /\ InRange(lo.width, ret.value.width, hi.width)
                  /\ lo.height <= hi.height =>
                        /\ ret.value.height =
                              Clamped(lo.height, hi.height, args.windowExtent.height)
                        /\ InRange(lo.height, ret.value.height, hi.height)

C23_Witness ==
    /\ args.fn = "chooseSwapExtent"
    /\ ret.status = "returned"
    /\ args.capabilities.currentExtent = VariableExtent
    /\ args.capabilities.minImageExtent = [width |-> 1, height |-> 1]
    /\ args.capabilities.maxImageExtent = [width |-> 2, height |-> 1]
    /\ args.windowExtent = [width |-> 0, height |-> 2]
    /\ ret.value = [width |-> 1, height |-> 1]


PreferredFormat == [format |-> "B8G8R8A8_SRGB", colorSpace |-> "SRGB_NONLINEAR_KHR"]

\* C24: chooseSurfaceFormat returns the first 8-bit BGRA sRGB format with the
\* sRGB-nonlinear color space when the list holds one anywhere, otherwise
\* the first format of the list, and throws exactly when the list is empty;
\* choosePresentMode returns mailbox when the list holds it and FIFO
\* otherwise, and never throws.
C24_FormatAndModeChoice ==
    /\ (args.fn = "chooseSurfaceFormat" /\ ret.status # "none") =>
          LET fs == args.availableFormats IN
          IF fs = <<>> THEN ret = Threw("No available surface formats found.")
          ELSE /\ ret.status = "returned"
               /\ IF \E i \in 1..Len(fs) : fs[i] = PreferredFormat
                  THEN ret.value = PreferredFormat
                  ELSE ret.value = fs[1]
    /\ (args.fn = "choosePresentMode" /\ ret.status # "none") =>
          LET ms == args.availablePresentModes IN
          /\ ret.status = "returned"
          /\ ret.value = IF \E i \in 1..Len(ms) : ms[i] = "MAILBOX_KHR"
                         THEN "MAILBOX_KHR" ELSE "FIFO_KHR"

C24_Witness ==
    /\ args.fn = "chooseSurfaceFormat"
    /\ Len(args.availableFormats) = 2
    /\ args.availableFormats[1] # PreferredFormat
    /\ args.availableFormats[2] = PreferredFormat
    /\ ret = Returned(PreferredFormat)


Rejected(a) ==
    \/ \E e \in a.extensions : e \notin a.available
    \/ "VK_KHR_swapchain" \notin a.available
    \/ \E kind \in {"Graphics", "Compute", "Transfer"} :
          \A i \in 1..Len(a.families) : kind \notin a.families[i]

FeatureBonus(a) ==
    (IF a.samplerAnisotropy THEN 200 ELSE 0)
    + (IF a.rayTracingExtension /\ a.rayTracingPipeline THEN 500 ELSE 0)
    + (IF a.geometryShader THEN 300 ELSE 0)

\* C25: the default scorer returns 0 exactly for an adapter that lacks a
\* required extension, swapchain support, or any of a graphics, compute or
\* transfer family; otherwise it returns the type bonus (1000 discrete, 500
\* integrated, 100 other) plus maxImageDimension2D plus 200 for anisotropy,
\* 500 for ray tracing and 300 for geometry shaders, which is positive; a
\* discrete adapter with dimension 8192 therefore scores above what an
\* integrated adapter with dimension 4096 and the same flags scores.
C25_DefaultScore ==
    (args.fn = "score" /\ ret.status # "none") =>
        /\ ret.status = "returned"
        /\ (ret.value = 0) <=> Rejected(args)
        /\ ~Rejected(args) =>
              /\ ret.value = (CASE args.deviceType = "DISCRETE_GPU" -> 1000
                                [] args.deviceType = "INTEGRATED_GPU" -> 500
                                [] OTHER -> 100)
                             + args.maxImageDimension2D + FeatureBonus(args)
              /\ ret.value > 0
              /\ (args.deviceType = "DISCRETE_GPU" /\ args.maxImageDimension2D = 8192)
                    => ret.value > 500 + 4096 + FeatureBonus(args)

C25_Witness ==
    /\ args.fn = "score"
    /\ args.deviceType = "DISCRETE_GPU"
    /\ args.maxImageDimension2D = 8192
    /\ Len(args.families) = 2
    /\ args.families[1] = {"Graphics"}
    /\ args.families[2] = {"Compute", "Transfer"}
    /\ args.rayTracingExtension /\ ~args.rayTracingPipeline
    /\ ret.status = "returned"
    /\ ret.value > 0


\* C27: requestCommandBuffer never hands one buffer to two requests without
\* an end() on it in between: every buffer a request returns, newly
\* allocated or recycled, is flagged in-use when the request returns.
C27_ReturnedBufferInUse ==
    (lastCall.op = "request" /\ lastCall.buf # 0) => commandBuffers[lastCall.buf].inUse


\* C28: the buffer a requestCommandBuffer(pipeline, surface) call returns is
\* bound to the pipeline, the render pass and the presentable surface of
\* that call, also when it is a recycled buffer.
C28_BoundToRequest ==
    (lastCall.op = "request" /\ lastCall.buf # 0) =>
        LET b == commandBuffers[lastCall.buf] IN
        /\ b.pipeline = args.pipeline.pipeline
        /\ b.renderPass = args.pipeline.renderPass.renderPass
        /\ b.presentable = args.presentable


\* The family of the queue with the given native handle
FamilyOfQueue(q) == {queues[i].familyIndex : i \in {j \in 1..Len(queues) : queues[j].queue = q}}

\* C29: across any sequence of requestCommandBuffer calls the command pool
\* is created at most once, every buffer of the registry was allocated
\* from that pool, the registry never shrinks or reorders, and the queue
\* family of the pool is the family of the queue submit() submits to.
C29_OnePoolOneFamily ==
    /\ [](/\ Len(pools) <= 1
          /\ commandPool = Len(pools)
          /\ \A b \in 1..Len(commandBuffers) :
                /\ commandPool # NullHandle
                /\ commandBuffers[b].commandPool = commandPool
          /\ commandPool # NullHandle =>
                FamilyOfQueue(SubmitInfo(1, queues).queue) = {pools[commandPool].queueFamilyIndex}
          /\ lastCall.op = "submit" =>
                FamilyOfQueue(lastCall.native.queue) =
                   {pools[commandBuffers[lastCall.buf].commandPool].queueFamilyIndex})
    /\ [][/\ commandPool # NullHandle => commandPool' = commandPool
          /\ Len(commandBuffers') >= Len(commandBuffers)
          /\ \A b \in 1..Len(commandBuffers) :
                commandBuffers'[b].commandBuffer = commandBuffers[b].commandBuffer]_vars

C29_Witness ==
    /\ lastCall.op = "submit"
    /\ lastCall.buf = 2
    /\ Len(pools) = 1
    /\ commandBuffers[2].commandPool = 1
    /\ lastCall.native.queue = 1


\* C30: createTexture(width, height, channels, data) yields a Texture whose
\* recorded width and height, image extent and copy extent are width x
\* height as the caller passed them, and activateTexture records the
\* transition to the transfer-destination layout before the copy.
C30_TextureAsPassed ==
    /\ (args.fn = "createTexture" /\ ret.status = "returned") =>
          /\ ret.value.width = args.width
          /\ ret.value.height = args.height
          /\ ret.value.extent = [width |-> args.width, height |-> args.height, depth |-> 1]
    /\ lastCall.op = "activateTexture" =>
          LET cs == lastCall.native.commands IN
          /\ Len(cs) = 2
          /\ cs[1].cmd = "vkCmdPipelineBarrier"
          /\ cs[1].newLayout = "TRANSFER_DST_OPTIMAL"
          /\ cs[2].cmd = "vkCmdCopyBufferToImage"
          /\ cs[2].imageExtent = [width |-> args.width, height |-> args.height, depth |-> 1]


\* The registry as the list of native buffers it holds
Registry == [b \in 1..Len(commandBuffers) |-> commandBuffers[b].commandBuffer]

=============================================================================
